---- MODULE Spec2Model ----
(***************************************************************************)
(* Model of the STRATUS-inspired SRE remediation workflow:                 *)
(*   graph.py            the LangGraph workflow (nodes, routing, events)   *)
(*   agents/*.py         triage, planner, mitigation, validation, undo     *)
(*   tools/docker_tools  the Docker / Nginx target controller              *)
(* One action per graph node; every action models the whole node,          *)
(* including the agent it wraps, the tools that agent calls and the        *)
(* events the node emits, in the order the code performs them.             *)
(***************************************************************************)
EXTENDS Integers, Sequences, FiniteSets, TLC

VARIABLES
    pc,           \* the node the graph runs next: a node name, "END", or "crashed"
    state,        \* the SystemState channels of the run (models/states.py)
    nginx_conf,   \* content of /etc/nginx/nginx.conf inside the api-gateway container
    nginx_bak,    \* content of /etc/nginx/nginx.conf.bak, or NoFile
    faults,       \* how many controller calls the environment has failed so far
    log,          \* in program order: events passed to emit_event, and calls made to
                  \* the oracles (LLM) and the target controller (Docker tools)
    last_checks,  \* what the three checks of section 4.6 observe in the latest VERIFY
    attempt_conf, \* nginx_conf as it was when the latest mitigation_node began
    peer,         \* a second run started by another POST /api/start-agent: where its
                  \* thread is, and the events it has emitted
    cancel,       \* an operator's request to cancel the run: Nothing, or Some(n) when
                  \* it arrived with n entries in the log
    runner_events, \* the events dashboard/app.py's run_agent sends by itself
    bus,          \* graph.py's _event_callback, and what has been passed to it
    cluster,      \* the cluster snapshot telemetry capture was run on, when the
                  \* specification follows it: Nothing or Some(snapshot)
    shop          \* the demo shop the agent watches: the product service's stock and
                  \* the order service's requests in flight, when the
                  \* specification follows them

\* what only the dashboard's specifications change
dashVars == <<peer, cancel, runner_events, cluster, shop>>

vars == <<pc, state, nginx_conf, nginx_bak, faults, log, last_checks, attempt_conf,
          peer, cancel, runner_events, bus, cluster, shop>>

(***************************************************************************)
(* Bounds of the model.                                                    *)
(***************************************************************************)
\* max_retries ranges over 1..MaxRetriesBound (both entry points pass 3)
MaxRetriesBound == 3
\* the Diagnostic Oracle reports at most this many symptoms
MaxSymptoms == 1
\* at most this many managed containers are not nominal in one health snapshot
MaxUnhealthy == 1
\* the environment fails at most this many controller calls of a run (container gone,
\* docker API error, command exiting non-zero)
MaxControllerFaults == 1
\* no run is followed for more than this many mitigation passes
MaxPasses == 5

\* Python's None where a string is expected, and a file that does not exist
None == "None"
NoFile == "NoFile"
\* an Optional[...] object is <<>> for None and <<x>> for the object x
Nothing == <<>>
Some(x) == <<x>>

(***************************************************************************)
(* Python string operations, on TLA+ strings.                              *)
(***************************************************************************)
\* Python's `sub in s`
Contains(s, sub) ==
    \E i \in 1..(Len(s) - Len(sub) + 1) : SubSeq(s, i, i + Len(sub) - 1) = sub

LowerCaseLetters == <<"a","b","c","d","e","f","g","h","i","j","k","l","m",
                      "n","o","p","q","r","s","t","u","v","w","x","y","z">>
UpperCaseLetters == <<"A","B","C","D","E","F","G","H","I","J","K","L","M",
                      "N","O","P","Q","R","S","T","U","V","W","X","Y","Z">>

UpperChar(c) ==
    IF \E k \in 1..Len(LowerCaseLetters) : LowerCaseLetters[k] = c
    THEN UpperCaseLetters[CHOOSE k \in 1..Len(LowerCaseLetters) : LowerCaseLetters[k] = c]
    ELSE c

LowerChar(c) ==
    IF \E k \in 1..Len(UpperCaseLetters) : UpperCaseLetters[k] = c
    THEN LowerCaseLetters[CHOOSE k \in 1..Len(UpperCaseLetters) : UpperCaseLetters[k] = c]
    ELSE c

\* Python's `sub in s.upper()`: upper() maps the string character by character
InUpper(sub, s) ==
    \E i \in 1..(Len(s) - Len(sub) + 1) :
        \A k \in 1..Len(sub) : UpperChar(SubSeq(s, i + k - 1, i + k - 1)) = SubSeq(sub, k, k)

\* Python's `sub in s.lower()`
InLower(sub, s) ==
    \E i \in 1..(Len(s) - Len(sub) + 1) :
        \A k \in 1..Len(sub) : LowerChar(SubSeq(s, i + k - 1, i + k - 1)) = SubSeq(sub, k, k)

RECURSIVE Upper(_)
\* Python's s.upper()
Upper(s) == IF Len(s) = 0 THEN "" ELSE UpperChar(SubSeq(s, 1, 1)) \o Upper(SubSeq(s, 2, Len(s)))

(***************************************************************************)
(* tools/docker_tools.py: the managed containers and what a probe of the   *)
(* cluster can observe.                                                    *)
(***************************************************************************)
MANAGED_CONTAINERS == <<"order-service", "product-service", "payment-service", "api-gateway">>
NGINX_CONTAINER == "api-gateway"

\* the services check_all_services_health probes on /health (ports 5001..5003)
health_endpoints == {"order-service", "product-service", "payment-service"}

ManagedSet == {MANAGED_CONTAINERS[i] : i \in 1..Len(MANAGED_CONTAINERS)}

\* What the environment shows of a business service at probe time:
\*   absent       no such container (_get_container returns None)
\*   exited, paused   docker status of a container that is not running
\*   up200        running, /health answers 200 at once
\*   slow200      running, /health answers 200 after more than 3 s and less than 5 s
\*   up500        running, /health answers 500
\*   unreachable  running, the request to /health raises
BusinessObs == {"absent", "exited", "paused", "up200", "slow200", "up500", "unreachable"}
\* ... and of the nginx container (no health endpoint)
GatewayObs == {"absent", "exited", "paused", "running"}

ObsOf(name) == IF name \in health_endpoints THEN BusinessObs ELSE GatewayObs

Nominal(o) == o \in {"up200", "running"}

\* A snapshot of the cluster: the observation of every managed container, the status
\* of GET http://localhost:80/ ("unreachable" when the request raises) and whether
\* GET http://localhost/api/products answers 200.
Snapshots ==
    { s \in [obs : { f \in [ManagedSet -> BusinessObs \cup GatewayObs] :
                         /\ \A n \in ManagedSet : f[n] \in ObsOf(n)
                         /\ Cardinality({n \in ManagedSet : ~Nominal(f[n])}) <= MaxUnhealthy },
             root : {"200", "502", "unreachable"},
             products : BOOLEAN] :
        /\ (s.root # "unreachable") <=> (s.obs[NGINX_CONTAINER] = "running")
        /\ s.products => /\ s.obs[NGINX_CONTAINER] = "running"
                         /\ s.obs["product-service"] \in {"up200", "slow200"} }

\* the text after "CONTAINER_" : container.status.upper()
StatusUpper(o) == Upper(o)

\* one line of check_all_services_health for a managed container
HealthLine(name, o) ==
    IF o = "absent" THEN name \o ": NOT_FOUND"
    ELSE IF o \in {"exited", "paused"} THEN name \o ": CONTAINER_" \o StatusUpper(o)
    ELSE IF name \in health_endpoints
         THEN CASE o \in {"up200", "slow200"} -> name \o ": HEALTHY (HTTP 200)"
                [] o = "up500" -> name \o ": UNHEALTHY (HTTP 500)"
                [] OTHER -> name \o ": UNREACHABLE (HTTPConnectionPool(host='localhost', port=50)"
         ELSE name \o ": RUNNING"

GatewayLine(root) ==
    IF root = "unreachable" THEN "api-gateway-http: UNREACHABLE"
    ELSE "api-gateway-http: HTTP_" \o root

\* faulty variant of check_all_services_health (C25 must notice it): a container that
\* is not found gets no line
check_all_services_health_found_only(s) ==
    SelectSeq([i \in 1..Len(MANAGED_CONTAINERS) |->
                  HealthLine(MANAGED_CONTAINERS[i], s.obs[MANAGED_CONTAINERS[i]])],
              LAMBDA line : ~Contains(line, "NOT_FOUND"))
    \o <<GatewayLine(s.root)>>

\* check_all_services_health: the report, as the sequence of its lines
check_all_services_health(s) ==
    [i \in 1..Len(MANAGED_CONTAINERS) |->
        HealthLine(MANAGED_CONTAINERS[i], s.obs[MANAGED_CONTAINERS[i]])]
    \o <<GatewayLine(s.root)>>

\* restart_container(service_name); how names the environment's answer:
\*   "absent" (no such container), "ok", "exception" (container.restart raises)
restart_container(service_name, how) ==
    CASE how = "absent" -> "Error: Container '" \o service_name \o "' not found"
      [] how = "ok" -> "Container '" \o service_name
                         \o "' restarted successfully. Status: running"
      [] OTHER -> "Error restarting '" \o service_name
                         \o "': 500 Server Error: Cannot restart container"

RestartOutcomes(service_name) ==
    IF service_name \in ManagedSet THEN {"absent", "ok", "exception"} ELSE {"absent"}

\* the answers that are a failure of the environment (a container of the managed set
\* missing, the docker API raising, a command exiting non-zero)
EnvFault(how) == how \in {"absent", "exception", "write_failed", "test_failed", "reload_failed"}

\* apply_nginx_config(config_content); how names the environment's answer:
\*   "absent"        no api-gateway container
\*   "exception"     the docker API raises at the first exec_run
\*   "write_failed"  the write command exits non-zero before touching the file
\*   "test_failed"   nginx -t exits non-zero
\*   "reload_failed" nginx -s reload exits non-zero
\*   "ok"
\* The result is the message returned and the two files afterwards.
ApplyOutcomes == {"absent", "exception", "write_failed", "test_failed", "reload_failed", "ok"}

\* faulty variant of apply_nginx_config (C20 must notice it): reports the failed
\* test but does not copy the backup over the rejected config
apply_nginx_config_no_revert(config_content, how, conf, bak) ==
    CASE how = "absent" ->
            [msg |-> "Error: api-gateway container not found", conf |-> conf, bak |-> bak]
      [] how = "exception" ->
            [msg |-> "Error applying config: 500 Server Error: Internal Server Error",
             conf |-> conf, bak |-> bak]
      [] how = "write_failed" ->
            \* 1. backup done, 2. write failed
            [msg |-> "Failed to write config: sh: argument list too long",
             conf |-> conf, bak |-> conf]
      [] how = "test_failed" ->
            \* 1. backup, 2. write, 3. nginx -t failed: cp backup over the config
            [msg |-> "Config test FAILED (auto-rolled back): nginx: [emerg] unexpected end of file",
             conf |-> config_content, bak |-> conf]
      [] how = "reload_failed" ->
            [msg |-> "Reload FAILED: nginx: [error] invalid PID number",
             conf |-> config_content, bak |-> conf]
      [] OTHER ->
            [msg |-> "Nginx config applied and reloaded successfully.",
             conf |-> config_content, bak |-> conf]

apply_nginx_config(config_content, how, conf, bak) ==
    CASE how = "absent" ->
            [msg |-> "Error: api-gateway container not found", conf |-> conf, bak |-> bak]
      [] how = "exception" ->
            [msg |-> "Error applying config: 500 Server Error: Internal Server Error",
             conf |-> conf, bak |-> bak]
      [] how = "write_failed" ->
            \* 1. backup done, 2. write failed
            [msg |-> "Failed to write config: sh: argument list too long",
             conf |-> conf, bak |-> conf]
      [] how = "test_failed" ->
            \* 1. backup, 2. write, 3. nginx -t failed: cp backup over the config
            [msg |-> "Config test FAILED (auto-rolled back): nginx: [emerg] unexpected end of file",
             conf |-> conf, bak |-> conf]
      [] how = "reload_failed" ->
            [msg |-> "Reload FAILED: nginx: [error] invalid PID number",
             conf |-> config_content, bak |-> conf]
      [] OTHER ->
            [msg |-> "Nginx config applied and reloaded successfully.",
             conf |-> config_content, bak |-> conf]

\* rollback_nginx_config(); how is "absent", "exception" (the docker API raises at
\* the first call) or "run"
RollbackOutcomes == {"absent", "exception", "run"}

\* faulty variant of rollback_nginx_config (C21 must notice it): restarts nginx
\* without copying the backup over the config
rollback_nginx_config_restart_only(how, conf, bak) ==
    CASE how = "absent" ->
            [msg |-> "Error: api-gateway container not found", conf |-> conf, bak |-> bak]
      [] how = "exception" ->
            [msg |-> "Error during rollback: 500 Server Error: Internal Server Error",
             conf |-> conf, bak |-> bak]
      [] bak = NoFile ->
            [msg |-> "No backup found to rollback", conf |-> conf, bak |-> bak]
      [] OTHER ->
            [msg |-> "Rollback completed. Nginx restarted with previous config.",
             conf |-> conf, bak |-> bak]

rollback_nginx_config(how, conf, bak) ==
    CASE how = "absent" ->
            [msg |-> "Error: api-gateway container not found", conf |-> conf, bak |-> bak]
      [] how = "exception" ->
            [msg |-> "Error during rollback: 500 Server Error: Internal Server Error",
             conf |-> conf, bak |-> bak]
      [] bak = NoFile ->
            [msg |-> "No backup found to rollback", conf |-> conf, bak |-> bak]
      [] OTHER ->
            [msg |-> "Rollback completed. Nginx restarted with previous config.",
             conf |-> bak, bak |-> bak]

(***************************************************************************)
(* The log: events handed to emit_event (graph.py:26-43) and calls to the  *)
(* oracles and to the mutating operations of the target controller.        *)
(***************************************************************************)
Event(phase, type) == [kind |-> "event", name |-> type, arg |-> phase]
Call(op, arg) == [kind |-> "call", name |-> op, arg |-> arg]
\* an oracle call that returned the value named (logged only for a None)
Returned(op, value) == [kind |-> "return", name |-> op, arg |-> value]

(***************************************************************************)
(* graph.py's event callback.  bus.callback is the global _event_callback; *)
(* bus.registered keeps the handlers set_event_callback was given, in      *)
(* order; bus.delivered the events passed to a handler; bus.errors counts  *)
(* the "Callback error" lines printed; bus.raised tells whether a          *)
(* handler's exception has left emit_event.                                *)
(***************************************************************************)
\* on_agent_event of the dashboard, and a handler that raises on some events
Handlers == {"on_agent_event", "raising_handler"}
RaisingTypes == {"action", "tnr_backup", "tnr_rollback"}
handler_raises(cb, event) == cb = "raising_handler" /\ event.name \in RaisingTypes

NoCallback ==
    [callback |-> Nothing, registered |-> <<>>, delivered |-> <<>>,
     errors |-> 0, raised |-> FALSE]

set_event_callback(b, cb) ==
    [b EXCEPT !.callback = Some(cb), !.registered = Append(@, cb)]

\* faulty variant of invoke_event_callback (C23 must notice it): no try/except
\* around the call
invoke_event_callback_uncaught(cb, event) ==
    IF handler_raises(cb, event) THEN "raised" ELSE "delivered"

\* emit_event's `try: _event_callback(event) except Exception as e: print(...)`
invoke_event_callback(cb, event) ==
    IF handler_raises(cb, event) THEN "caught" ELSE "delivered"

RECURSIVE PublishFrom(_, _, _)
PublishFrom(b, l, i) ==
    IF i > Len(l) THEN b
    ELSE IF l[i].kind # "event" THEN PublishFrom(b, l, i + 1)
    ELSE LET cb == b.callback[1]
             outcome == invoke_event_callback(cb, l[i])
         IN  PublishFrom([b EXCEPT !.delivered = Append(@, [to |-> cb, event |-> l[i]]),
                                   !.errors = IF outcome = "caught" THEN @ + 1 ELSE @,
                                   !.raised = @ \/ outcome = "raised"],
                         l, i + 1)

\* the `if _event_callback:` part of the emit_event calls that extended the log
\* from l to l2
Publish(b, l, l2) ==
    IF b.callback = Nothing THEN b ELSE PublishFrom(b, l2, Len(l) + 1)

\* emit_event: the event is printed and handed to the callback; the log gets it
emit_event(l, phase, type) == Append(l, Event(phase, type))

MutatingOps == {"restart_container", "apply_nginx_config", "rollback_nginx_config"}

RECURSIVE JoinLines(_)
\* "\n".join(lines)
JoinLines(lines) ==
    IF Len(lines) = 0 THEN ""
    ELSE IF Len(lines) = 1 THEN lines[1]
    ELSE lines[1] \o "\n" \o JoinLines(Tail(lines))

(***************************************************************************)
(* agents/undo_agent.py: the validation oracle the graph uses, and the     *)
(* third check as validation_oracle_v2 defines it.                         *)
(***************************************************************************)
unhealthy_markers == {"UNHEALTHY", "UNREACHABLE", "NOT_FOUND", "CONTAINER_STOPPED", "CONTAINER_EXITED"}

\* any(marker in current_health.upper() for marker in unhealthy_markers)
has_issues(current_health) ==
    \E marker \in unhealthy_markers : InUpper(marker, current_health)

\* requests.get("http://localhost/api/products").status_code == 200, False on raise
gateway_ok(s) == s.products

\* Oracle 3 of validation_oracle_v2: every business service answers 200 on /health
\* within 3 s
services_ok(s) == \A svc \in health_endpoints : s.obs[svc] = "up200"

\* what the checks see of a snapshot: has_issues of its health report, gateway_ok,
\* and what the direct probes would answer
Reading(s) ==
    [ has_issues  |-> has_issues(JoinLines(check_all_services_health(s))),
      gateway_ok  |-> gateway_ok(s),
      services_ok |-> services_ok(s) ]

\* the readings the cluster can give
Readings == { Reading(s) : s \in Snapshots }

\* validation_oracle (the one verification_node calls): the overall_status it returns
validation_oracle(r) ==
    LET is_healthy == ~r.has_issues /\ r.gateway_ok
    IN  IF is_healthy THEN "healthy" ELSE "degraded"

(***************************************************************************)
(* Oracle outputs (LLM structured output), drawn from small sets.          *)
(***************************************************************************)
Symptom == [service_name : {"order-service"}, symptom_type : {"service_down"},
            severity : {"critical"}]

RECURSIVE SeqsUpTo(_, _)
SeqsUpTo(S, n) ==
    IF n = 0 THEN {<<>>}
    ELSE SeqsUpTo(S, n - 1) \cup {Append(q, x) : q \in {r \in SeqsUpTo(S, n - 1) : Len(r) = n - 1}, x \in S}

\* SymptomList as chain.invoke returns it
Diagnoses == [symptoms : SeqsUpTo(Symptom, MaxSymptoms),
              overall_status : {"healthy", "degraded", "critical"},
              summary : {"summary"}]

ActionTypes == {"restart_container", "update_config", "rollback_config", "scale_service"}

\* MitigationPlan: the planner gives config_content, if at all, with update_config
Plans == { p \in [action_type : ActionTypes,
                  target_service : {"order-service", "ghost-service"},
                  config_content : {None, "conf_plan"},
                  root_cause : {"cause"}] :
             p.config_content # None => p.action_type = "update_config" }

\* the config text the config-generation call returns (when it does not raise)
Generated == {"conf_llm"}

\* the health snapshots telemetry capture is run on
TriageSnapshots ==
    { s \in Snapshots : /\ \A n \in ManagedSet :
                              Nominal(s.obs[n]) \/ (n = "order-service" /\ s.obs[n] = "exited")
                        /\ s.root = "200"
                        /\ s.products = Nominal(s.obs["order-service"]) }

\* the lines of metrics_data on a Prometheus that scrapes no job and sees no traffic
\* (get_all_services_metrics, then one get_service_error_rate line per service)
metrics_data ==
    << "=== Service UP Status ===",
       "",
       "=== Request Rates (req/s, last 1m) ===",
       "  order-service: 0.0000 req/s",
       "  product-service: 0.0000 req/s",
       "  payment-service: 0.0000 req/s",
       "Service 'order': no traffic detected (total_rate=0)",
       "Service 'product': no traffic detected (total_rate=0)",
       "Service 'payment': no traffic detected (total_rate=0)" >>

(***************************************************************************)
(* graph.py: routing functions and the edges of build_sre_graph.           *)
(***************************************************************************)
\* faulty variant of should_mitigate (C6 must notice it): routes on the status the
\* diagnosis gives instead of on the symptoms
should_mitigate_on_status(st) == IF st.overall_status # "healthy" THEN "planner" ELSE "end"

\* Triage -> Planner only when there are symptoms
should_mitigate(st) == IF Len(st.symptoms) > 0 THEN "planner" ELSE "end"

\* faulty variant of should_retry_or_end (C4 must notice it): routes on what the
\* mitigation reported instead of on the verdict
should_retry_or_end_on_result(st) ==
    IF st.mitigation_result # Nothing /\ st.mitigation_result[1].success THEN "end" ELSE "undo"

\* Verification -> Undo unless healthy
should_retry_or_end(st) == IF st.overall_status = "healthy" THEN "end" ELSE "undo"

\* faulty variant of can_retry (C2 must notice it): one attempt too many
can_retry_inclusive(st) == IF st.attempt_count <= st.max_retries THEN "mitigation" ELSE "end"

\* faulty variant of can_retry (C3 must notice it): retries while not healthy and
\* forgets the budget
can_retry_unbounded(st) == IF st.overall_status # "healthy" THEN "mitigation" ELSE "end"

\* Undo -> Mitigation while attempts remain
can_retry(st) == IF st.attempt_count < st.max_retries THEN "mitigation" ELSE "end"

\* faulty variant of build_sre_graph (C28 must notice it): a retry goes back to the
\* planner for a fresh plan
build_sre_graph_replan(node, st) ==
    CASE node = "START" -> "triage"
      [] node = "triage" -> IF should_mitigate(st) = "planner" THEN "planner" ELSE "END"
      [] node = "planner" -> "mitigation"
      [] node = "mitigation" -> "verification"
      [] node = "verification" -> IF should_retry_or_end(st) = "undo" THEN "undo" ELSE "END"
      [] node = "undo" -> IF can_retry(st) = "mitigation" THEN "planner" ELSE "END"

\* the node that follows `node` once it has returned and its output is merged into st
build_sre_graph(node, st) ==
    CASE node = "START" -> "triage"
      [] node = "triage" -> IF should_mitigate(st) = "planner" THEN "planner" ELSE "END"
      [] node = "planner" -> "mitigation"
      [] node = "mitigation" -> "verification"
      [] node = "verification" -> IF should_retry_or_end(st) = "undo" THEN "undo" ELSE "END"
      [] node = "undo" -> IF can_retry(st) = "mitigation" THEN "mitigation" ELSE "END"

(***************************************************************************)
(* The run's initial state (main_v2.py:46-62, dashboard/app.py:265-281).   *)
(***************************************************************************)
initial_state(max_retries) ==
    [ symptoms |-> <<>>,
      triage_summary |-> "",
      overall_status |-> "",
      pre_fix_health |-> <<>>,
      mitigation_plan |-> Nothing,
      mitigation_result |-> Nothing,
      actions_taken |-> <<>>,
      attempt_count |-> 0,
      max_retries |-> max_retries ]

\* no shop traffic is followed
NoShop == [products |-> <<>>, simulate_failure |-> FALSE, orders |-> <<>>]

Init ==
    /\ pc = build_sre_graph("START", initial_state(1))
    /\ \E m \in 1..MaxRetriesBound : state = initial_state(m)
    /\ nginx_conf = "conf_live"
    /\ nginx_bak \in {NoFile, "conf_old"}
    /\ faults = 0
    /\ log = <<>>
    /\ last_checks = Nothing
    /\ attempt_conf = nginx_conf
    /\ peer = [pc |-> "absent", log |-> <<>>, success |-> FALSE]
    /\ cancel = Nothing
    /\ runner_events = <<>>
    /\ bus = NoCallback
    /\ cluster = Nothing
    /\ shop = NoShop

(***************************************************************************)
(* Node 1: triage_node (graph.py:48-118) around triage_agent               *)
(* (agents/triage_agent.py:106-116).                                       *)
(***************************************************************************)
RECURSIVE EmitTimes(_, _, _, _)
\* n calls of emit_event with the same phase and type
EmitTimes(l, phase, type, n) ==
    IF n = 0 THEN l ELSE EmitTimes(emit_event(l, phase, type), phase, type, n - 1)

\* the lines of metrics_data the node turns into telemetry events
MetricsTelemetry ==
    Cardinality({ i \in 1..Len(metrics_data) :
                    /\ metrics_data[i] # ""
                    /\ \/ Contains(metrics_data[i], "UP")
                       \/ Contains(metrics_data[i], "DOWN")
                       \/ Contains(metrics_data[i], "req/s") })

\* triage_agent: telemetry first, then the diagnosis; chain.invoke either raises or
\* answers d
triage_agent(st, snap, raises, d) ==
    IF raises
    THEN [raised |-> TRUE, calls |-> <<Call("diagnose", "llm")>>, out |-> st]
    ELSE [raised |-> FALSE,
          calls |-> <<Call("diagnose", "llm")>>,
          out |-> [st EXCEPT !.pre_fix_health = check_all_services_health(snap),
                               !.symptoms = d.symptoms,
                               !.triage_summary = d.summary,
                               !.overall_status = d.overall_status]]

triage_node(snap, raises, d) ==
    LET l1 == emit_event(log, "triage", "action")
        r  == triage_agent(state, snap, raises, d)
        l2 == l1 \o r.calls
        \* one telemetry event per non-blank line of the health report
        l3 == EmitTimes(l2, "triage", "telemetry", Len(r.out.pre_fix_health))
        l4 == EmitTimes(l3, "triage", "telemetry", MetricsTelemetry)
        l5 == IF r.out.triage_summary # "" THEN emit_event(l4, "triage", "reasoning") ELSE l4
        l6 == IF Len(r.out.symptoms) > 0
              THEN EmitTimes(l5, "triage", "conclusion", Len(r.out.symptoms))
              ELSE emit_event(l5, "triage", "conclusion")
    IN  IF r.raised
        THEN /\ pc' = "crashed"
             /\ log' = l2
             /\ UNCHANGED <<state, nginx_conf, nginx_bak, faults, last_checks, attempt_conf>>
        ELSE /\ state' = r.out
             /\ log' = l6
             /\ pc' = build_sre_graph("triage", r.out)
             /\ UNCHANGED <<nginx_conf, nginx_bak, faults, last_checks, attempt_conf>>

TriageNode ==
    /\ pc = "triage"
    /\ \E snap \in TriageSnapshots, raises \in BOOLEAN :
          \E d \in (IF raises THEN {CHOOSE x \in Diagnoses : TRUE} ELSE Diagnoses) :
              triage_node(snap, raises, d)
    /\ UNCHANGED dashVars
    /\ bus' = Publish(bus, log, log')

(***************************************************************************)
(* Node 2: planner_node (graph.py:121-158) around planner_agent            *)
(* (agents/planner_agent.py:12-64).                                        *)
(***************************************************************************)
\* chain.invoke either raises or answers ans: Some(plan), or Nothing when the
\* structured output holds no plan (None), which plan.root_cause then trips over
planner_agent(st, raises, ans) ==
    IF Len(st.symptoms) = 0
    THEN [raised |-> FALSE, calls |-> <<>>, plan |-> Nothing]
    ELSE IF raises
    THEN [raised |-> TRUE, calls |-> <<Call("plan", "llm")>>, plan |-> Nothing]
    ELSE IF ans = Nothing
    THEN [raised |-> TRUE, calls |-> <<Call("plan", "llm"), Returned("plan", "None")>>,
          plan |-> Nothing]
    ELSE [raised |-> FALSE, calls |-> <<Call("plan", "llm")>>, plan |-> ans]

planner_node(raises, ans) ==
    LET l1 == emit_event(log, "planner", "action")
        r  == planner_agent(state, raises, ans)
        l2 == l1 \o r.calls
        l3 == IF r.plan # Nothing
              THEN emit_event(emit_event(emit_event(l2, "planner", "reasoning"),
                                         "planner", "reasoning"),
                              "planner", "conclusion")
              ELSE l2
        out == [state EXCEPT !.mitigation_plan = r.plan]
    IN  IF r.raised
        THEN /\ pc' = "crashed"
             /\ log' = l2
             /\ UNCHANGED <<state, nginx_conf, nginx_bak, faults, last_checks, attempt_conf>>
        ELSE /\ state' = out
             /\ log' = l3
             /\ pc' = build_sre_graph("planner", out)
             /\ UNCHANGED <<nginx_conf, nginx_bak, faults, last_checks, attempt_conf>>

\* what the Planning Oracle may answer
PlanAnswers == {Nothing} \cup {Some(p) : p \in Plans}

PlannerNode ==
    /\ pc = "planner"
    /\ \E raises \in BOOLEAN :
          \E ans \in (IF raises THEN {Nothing} ELSE PlanAnswers) :
              planner_node(raises, ans)
    /\ UNCHANGED dashVars
    /\ bus' = Publish(bus, log, log')

(***************************************************************************)
(* Node 3: mitigation_node (graph.py:161-212) around mitigation_agent      *)
(* (agents/mitigation_agent.py:27-96).                                     *)
(***************************************************************************)
\* the environment's possible answers to the controller call the plan leads to
HowFor(plan) ==
    CASE plan = Nothing -> {"unused"}
      [] plan[1].action_type = "restart_container" -> RestartOutcomes(plan[1].target_service)
      [] plan[1].action_type = "update_config" -> ApplyOutcomes
      [] plan[1].action_type = "rollback_config" -> RollbackOutcomes
      [] OTHER -> {"unused"}

\* an environment failure counts against MaxControllerFaults, except the "absent"
\* that a plan naming a container outside the managed set is bound to get
Charged(how, plan) ==
    /\ EnvFault(how)
    /\ ~(/\ plan # Nothing
         /\ plan[1].action_type = "restart_container"
         /\ plan[1].target_service \notin ManagedSet)

\* does mitigation_agent ask the LLM for a config
NeedsGeneration(plan) ==
    /\ plan # Nothing
    /\ plan[1].action_type = "update_config"
    /\ plan[1].config_content = None

\* the messages the controller's tools can hand to mitigation_agent
ControllerMessages ==
    { restart_container(p.target_service, h) : p \in Plans, h \in {"absent", "ok", "exception"} }
    \cup { apply_nginx_config("conf", h, "conf", "conf").msg : h \in ApplyOutcomes }
    \cup { rollback_nginx_config(h, "conf", b).msg : h \in RollbackOutcomes, b \in {NoFile, "conf"} }

\* the words mitigation_agent looks for in result.lower()
SuccessWords == {"successfully", "restarted", "completed", "rollback"}

\* word in result.lower(), computed once for every message (@@ makes TLC tabulate it)
InLowerOf == [w \in SuccessWords, m \in ControllerMessages |-> InLower(w, m)] @@ <<>>

\* faulty variant of mitigation_agent (C30 must notice it): asks the LLM for a config
\* even when the plan carries one
mitigation_agent_always_generates(st, how, gen_raises, gen, conf, bak) ==
    LET plan == st.mitigation_plan
        actions_log == st.actions_taken
    IN
    IF plan = Nothing
    THEN [raised |-> FALSE, calls |-> <<>>, conf |-> conf, bak |-> bak,
          mitigation_result |-> [success |-> FALSE, action_taken |-> "none",
                                 message |-> "No plan provided", target_service |-> ""],
          actions_taken |-> Append(actions_log, "No mitigation plan to execute")]
    ELSE
    LET action == plan[1].action_type
        target == plan[1].target_service
    IN
    CASE action = "restart_container" ->
            LET result_msg == restart_container(target, how)
                success == \/ InLowerOf["successfully", result_msg]
                           \/ InLowerOf["restarted", result_msg]
            IN  [raised |-> FALSE, calls |-> <<Call("restart_container", target)>>,
                 conf |-> conf, bak |-> bak,
                 mitigation_result |-> [success |-> success, action_taken |-> action,
                                        message |-> result_msg, target_service |-> target],
                 actions_taken |-> Append(actions_log, "Restart container: " \o target \o " -> "
                                              \o (IF success THEN "OK" ELSE "FAILED"))]
      [] action = "update_config" ->
            IF plan[1].config_content = None /\ gen_raises
            THEN \* llm.invoke raises: nothing is returned
                 [raised |-> TRUE, calls |-> <<Call("generate_config", "llm")>>,
                  conf |-> conf, bak |-> bak,
                  mitigation_result |-> [success |-> FALSE, action_taken |-> action,
                                         message |-> "", target_service |-> target],
                  actions_taken |-> actions_log]
            ELSE
            LET config == IF plan[1].config_content # None THEN plan[1].config_content ELSE gen
                r == apply_nginx_config(config, how, conf, bak)
                success == InLowerOf["successfully", r.msg]
            IN  [raised |-> FALSE,
                 calls |-> <<Call("generate_config", "llm")>>
                           \o <<Call("apply_nginx_config", config)>>,
                 conf |-> r.conf, bak |-> r.bak,
                 mitigation_result |-> [success |-> success, action_taken |-> action,
                                        message |-> r.msg, target_service |-> target],
                 actions_taken |-> Append(actions_log, "Update Nginx config -> "
                                              \o (IF success THEN "OK" ELSE "FAILED"))]
      [] action = "rollback_config" ->
            LET r == rollback_nginx_config(how, conf, bak)
                success == \/ InLowerOf["completed", r.msg]
                           \/ InLowerOf["rollback", r.msg]
            IN  [raised |-> FALSE, calls |-> <<Call("rollback_nginx_config", NGINX_CONTAINER)>>,
                 conf |-> r.conf, bak |-> r.bak,
                 mitigation_result |-> [success |-> success, action_taken |-> action,
                                        message |-> r.msg, target_service |-> target],
                 actions_taken |-> Append(actions_log, "Rollback Nginx config -> "
                                              \o (IF success THEN "OK" ELSE "FAILED"))]
      [] OTHER ->
            [raised |-> FALSE, calls |-> <<>>, conf |-> conf, bak |-> bak,
             mitigation_result |-> [success |-> FALSE, action_taken |-> action,
                                    message |-> "Unknown action type: " \o action,
                                    target_service |-> target],
             actions_taken |-> Append(actions_log, "Unknown action: " \o action)]

\* mitigation_agent: how is the controller's answer, gen_raises / gen the LLM's.
\* Returns whether it raised, the calls it made, the files afterwards and the
\* mitigation_result and actions_taken it returns.
\* faulty variant of mitigation_agent (C31 must notice it): treats an action it does
\* not know as a restart of the plan's target
mitigation_agent_scale_restarts(st, how, gen_raises, gen, conf, bak) ==
    LET plan == st.mitigation_plan
        actions_log == st.actions_taken
    IN
    IF plan = Nothing
    THEN [raised |-> FALSE, calls |-> <<>>, conf |-> conf, bak |-> bak,
          mitigation_result |-> [success |-> FALSE, action_taken |-> "none",
                                 message |-> "No plan provided", target_service |-> ""],
          actions_taken |-> Append(actions_log, "No mitigation plan to execute")]
    ELSE
    LET action == plan[1].action_type
        target == plan[1].target_service
    IN
    CASE action = "restart_container" ->
            LET result_msg == restart_container(target, how)
                success == \/ InLowerOf["successfully", result_msg]
                           \/ InLowerOf["restarted", result_msg]
            IN  [raised |-> FALSE, calls |-> <<Call("restart_container", target)>>,
                 conf |-> conf, bak |-> bak,
                 mitigation_result |-> [success |-> success, action_taken |-> action,
                                        message |-> result_msg, target_service |-> target],
                 actions_taken |-> Append(actions_log, "Restart container: " \o target \o " -> "
                                              \o (IF success THEN "OK" ELSE "FAILED"))]
      [] action = "update_config" ->
            IF plan[1].config_content = None /\ gen_raises
            THEN \* llm.invoke raises: nothing is returned
                 [raised |-> TRUE, calls |-> <<Call("generate_config", "llm")>>,
                  conf |-> conf, bak |-> bak,
                  mitigation_result |-> [success |-> FALSE, action_taken |-> action,
                                         message |-> "", target_service |-> target],
                  actions_taken |-> actions_log]
            ELSE
            LET config == IF plan[1].config_content # None THEN plan[1].config_content ELSE gen
                r == apply_nginx_config(config, how, conf, bak)
                success == InLowerOf["successfully", r.msg]
            IN  [raised |-> FALSE,
                 calls |-> (IF plan[1].config_content # None THEN <<>>
                            ELSE <<Call("generate_config", "llm")>>)
                           \o <<Call("apply_nginx_config", config)>>,
                 conf |-> r.conf, bak |-> r.bak,
                 mitigation_result |-> [success |-> success, action_taken |-> action,
                                        message |-> r.msg, target_service |-> target],
                 actions_taken |-> Append(actions_log, "Update Nginx config -> "
                                              \o (IF success THEN "OK" ELSE "FAILED"))]
      [] action = "rollback_config" ->
            LET r == rollback_nginx_config(how, conf, bak)
                success == \/ InLowerOf["completed", r.msg]
                           \/ InLowerOf["rollback", r.msg]
            IN  [raised |-> FALSE, calls |-> <<Call("rollback_nginx_config", NGINX_CONTAINER)>>,
                 conf |-> r.conf, bak |-> r.bak,
                 mitigation_result |-> [success |-> success, action_taken |-> action,
                                        message |-> r.msg, target_service |-> target],
                 actions_taken |-> Append(actions_log, "Rollback Nginx config -> "
                                              \o (IF success THEN "OK" ELSE "FAILED"))]
      [] OTHER ->
            [raised |-> FALSE, calls |-> <<Call("restart_container", target)>>,
             conf |-> conf, bak |-> bak,
             mitigation_result |-> [success |-> FALSE, action_taken |-> action,
                                    message |-> "Unknown action type: " \o action,
                                    target_service |-> target],
             actions_taken |-> Append(actions_log, "Unknown action: " \o action)]

mitigation_agent(st, how, gen_raises, gen, conf, bak) ==
    LET plan == st.mitigation_plan
        actions_log == st.actions_taken
    IN
    IF plan = Nothing
    THEN [raised |-> FALSE, calls |-> <<>>, conf |-> conf, bak |-> bak,
          mitigation_result |-> [success |-> FALSE, action_taken |-> "none",
                                 message |-> "No plan provided", target_service |-> ""],
          actions_taken |-> Append(actions_log, "No mitigation plan to execute")]
    ELSE
    LET action == plan[1].action_type
        target == plan[1].target_service
    IN
    CASE action = "restart_container" ->
            LET result_msg == restart_container(target, how)
                success == \/ InLowerOf["successfully", result_msg]
                           \/ InLowerOf["restarted", result_msg]
            IN  [raised |-> FALSE, calls |-> <<Call("restart_container", target)>>,
                 conf |-> conf, bak |-> bak,
                 mitigation_result |-> [success |-> success, action_taken |-> action,
                                        message |-> result_msg, target_service |-> target],
                 actions_taken |-> Append(actions_log, "Restart container: " \o target \o " -> "
                                              \o (IF success THEN "OK" ELSE "FAILED"))]
      [] action = "update_config" ->
            IF plan[1].config_content = None /\ gen_raises
            THEN \* llm.invoke raises: nothing is returned
                 [raised |-> TRUE, calls |-> <<Call("generate_config", "llm")>>,
                  conf |-> conf, bak |-> bak,
                  mitigation_result |-> [success |-> FALSE, action_taken |-> action,
                                         message |-> "", target_service |-> target],
                  actions_taken |-> actions_log]
            ELSE
            LET config == IF plan[1].config_content # None THEN plan[1].config_content ELSE gen
                r == apply_nginx_config(config, how, conf, bak)
                success == InLowerOf["successfully", r.msg]
            IN  [raised |-> FALSE,
                 calls |-> (IF plan[1].config_content # None THEN <<>>
                            ELSE <<Call("generate_config", "llm")>>)
                           \o <<Call("apply_nginx_config", config)>>,
                 conf |-> r.conf, bak |-> r.bak,
                 mitigation_result |-> [success |-> success, action_taken |-> action,
                                        message |-> r.msg, target_service |-> target],
                 actions_taken |-> Append(actions_log, "Update Nginx config -> "
                                              \o (IF success THEN "OK" ELSE "FAILED"))]
      [] action = "rollback_config" ->
            LET r == rollback_nginx_config(how, conf, bak)
                success == \/ InLowerOf["completed", r.msg]
                           \/ InLowerOf["rollback", r.msg]
            IN  [raised |-> FALSE, calls |-> <<Call("rollback_nginx_config", NGINX_CONTAINER)>>,
                 conf |-> r.conf, bak |-> r.bak,
                 mitigation_result |-> [success |-> success, action_taken |-> action,
                                        message |-> r.msg, target_service |-> target],
                 actions_taken |-> Append(actions_log, "Rollback Nginx config -> "
                                              \o (IF success THEN "OK" ELSE "FAILED"))]
      [] OTHER ->
            [raised |-> FALSE, calls |-> <<>>, conf |-> conf, bak |-> bak,
             mitigation_result |-> [success |-> FALSE, action_taken |-> action,
                                    message |-> "Unknown action type: " \o action,
                                    target_service |-> target],
             actions_taken |-> Append(actions_log, "Unknown action: " \o action)]

\* the number of passes through mitigation_node that have begun
Passes(l) == Cardinality({i \in 1..Len(l) : l[i] = Event("mitigation", "lock_acquired")})

\* faulty variant of mitigation_node (C33 must notice it): counts the attempt when the
\* pass begins, as the lock_acquired text suggests
mitigation_node_counts(how, gen_raises, gen) ==
    LET l1 == emit_event(log, "mitigation", "lock_acquired")
        l2 == emit_event(l1, "mitigation", "tnr_backup")
        r  == mitigation_agent(state, how, gen_raises, gen, nginx_conf, nginx_bak)
        l3 == l2 \o r.calls
        l4 == emit_event(l3, "mitigation", "tnr_apply")
        l5 == emit_event(l4, "mitigation",
                         IF r.mitigation_result.success THEN "conclusion" ELSE "tnr_rollback")
        l6 == emit_event(l5, "mitigation", "lock_released")
        out == [state EXCEPT !.mitigation_result = Some(r.mitigation_result),
                             !.actions_taken = r.actions_taken,
                             !.attempt_count = @ + 1]
    IN  IF r.raised
        THEN /\ pc' = "crashed"
             /\ log' = l3
             /\ attempt_conf' = nginx_conf
             /\ UNCHANGED <<state, nginx_conf, nginx_bak, faults, last_checks>>
        ELSE /\ state' = out
             /\ log' = l6
             /\ nginx_conf' = r.conf
             /\ nginx_bak' = r.bak
             /\ faults' = IF Charged(how, state.mitigation_plan) THEN faults + 1 ELSE faults
             /\ pc' = build_sre_graph("mitigation", out)
             /\ attempt_conf' = nginx_conf
             /\ UNCHANGED last_checks

mitigation_node(how, gen_raises, gen) ==
    LET l1 == emit_event(log, "mitigation", "lock_acquired")
        l2 == emit_event(l1, "mitigation", "tnr_backup")
        r  == mitigation_agent(state, how, gen_raises, gen, nginx_conf, nginx_bak)
        l3 == l2 \o r.calls
        l4 == emit_event(l3, "mitigation", "tnr_apply")
        l5 == emit_event(l4, "mitigation",
                         IF r.mitigation_result.success THEN "conclusion" ELSE "tnr_rollback")
        l6 == emit_event(l5, "mitigation", "lock_released")
        out == [state EXCEPT !.mitigation_result = Some(r.mitigation_result),
                             !.actions_taken = r.actions_taken]
    IN  IF r.raised
        THEN /\ pc' = "crashed"
             /\ log' = l3
             /\ attempt_conf' = nginx_conf
             /\ UNCHANGED <<state, nginx_conf, nginx_bak, faults, last_checks>>
        ELSE /\ state' = out
             /\ log' = l6
             /\ nginx_conf' = r.conf
             /\ nginx_bak' = r.bak
             /\ faults' = IF Charged(how, state.mitigation_plan) THEN faults + 1 ELSE faults
             /\ pc' = build_sre_graph("mitigation", out)
             /\ attempt_conf' = nginx_conf
             /\ UNCHANGED last_checks

MitigationNode ==
    /\ pc = "mitigation"
    /\ Passes(log) < MaxPasses
    /\ \E how \in { h \in HowFor(state.mitigation_plan) :
                         Charged(h, state.mitigation_plan) => faults < MaxControllerFaults },
          gen_raises \in (IF NeedsGeneration(state.mitigation_plan) THEN BOOLEAN ELSE {FALSE}),
          gen \in Generated :
            mitigation_node(how, gen_raises, gen)
    /\ UNCHANGED dashVars
    /\ bus' = Publish(bus, log, log')

(***************************************************************************)
(* Node 4: verification_node (graph.py:215-263) around validation_oracle   *)
(* (agents/undo_agent.py:10-46).                                           *)
(***************************************************************************)
verification_node(r) ==
    LET l1 == emit_event(log, "verification", "action")
        l2 == emit_event(l1, "verification", "oracle")
        status == validation_oracle(r)
        is_healthy == status = "healthy"
        l3 == emit_event(l2, "verification", "oracle")
        l4 == emit_event(l3, "verification", "oracle")
        l5 == emit_event(l4, "verification", IF is_healthy THEN "tnr_commit" ELSE "tnr_rollback")
        out == [state EXCEPT !.overall_status = status]
    IN  /\ state' = out
        /\ log' = l5
        /\ last_checks' = Some([health_ok |-> ~r.has_issues,
                                gateway_ok |-> r.gateway_ok,
                                services_ok |-> r.services_ok])
        /\ pc' = build_sre_graph("verification", out)
        /\ UNCHANGED <<nginx_conf, nginx_bak, faults, attempt_conf>>

VerificationNode ==
    /\ pc = "verification"
    /\ \E r \in Readings : verification_node(r)
    /\ UNCHANGED dashVars
    /\ bus' = Publish(bus, log, log')

(***************************************************************************)
(* Node 5: undo_node (graph.py:266-296) around undo_agent                  *)
(* (agents/undo_agent.py:112-143).                                         *)
(***************************************************************************)
\* faulty variant of undo_agent (C27 must notice it): starts a new actions_log
\* instead of appending to the one in the state
undo_agent_fresh_log(st, how, conf, bak) ==
    LET current_attempt == st.attempt_count + 1
        r == rollback_nginx_config(how, conf, bak)
    IN  [calls |-> <<Call("rollback_nginx_config", NGINX_CONTAINER)>>,
         conf |-> r.conf, bak |-> r.bak,
         attempt_count |-> current_attempt,
         actions_taken |-> Append(<<>>,
                                  "TNR Rollback (attempt " \o ToString(current_attempt)
                                      \o ") -> " \o r.msg),
         mitigation_result |-> [success |-> FALSE, action_taken |-> "rollback",
                                message |-> r.msg, target_service |-> "api-gateway"]]

undo_agent(st, how, conf, bak) ==
    LET current_attempt == st.attempt_count + 1
        r == rollback_nginx_config(how, conf, bak)
    IN  [calls |-> <<Call("rollback_nginx_config", NGINX_CONTAINER)>>,
         conf |-> r.conf, bak |-> r.bak,
         attempt_count |-> current_attempt,
         actions_taken |-> Append(st.actions_taken,
                                  "TNR Rollback (attempt " \o ToString(current_attempt)
                                      \o ") -> " \o r.msg),
         mitigation_result |-> [success |-> FALSE, action_taken |-> "rollback",
                                message |-> r.msg, target_service |-> "api-gateway"]]

\* faulty variant of UndoVerdictEvent (C8 must notice it): announces a retry on the
\* last attempt
UndoVerdictEvent_inclusive(new_attempt, max_retries) ==
    IF new_attempt <= max_retries THEN "action" ELSE "circuit_breaker"

\* the type of the event undo_node emits after undo_agent has returned
UndoVerdictEvent(new_attempt, max_retries) ==
    IF new_attempt < max_retries THEN "action" ELSE "circuit_breaker"

\* faulty variant of undo_node (C19 must notice it): stores the rollback's answer
\* as pre_fix_health
undo_node_resnapshot(how) ==
    LET max_retries == state.max_retries
        l1 == emit_event(log, "undo", "tnr_rollback")
        r  == undo_agent(state, how, nginx_conf, nginx_bak)
        l2 == l1 \o r.calls
        new_attempt == r.attempt_count
        l3 == emit_event(l2, "undo", UndoVerdictEvent(new_attempt, max_retries))
        out == [state EXCEPT !.attempt_count = r.attempt_count,
                             !.actions_taken = r.actions_taken,
                             !.mitigation_result = Some(r.mitigation_result),
                             !.pre_fix_health = <<r.mitigation_result.message>>]
    IN  /\ state' = out
        /\ log' = l3
        /\ nginx_conf' = r.conf
        /\ nginx_bak' = r.bak
        /\ faults' = IF EnvFault(how) THEN faults + 1 ELSE faults
        /\ pc' = build_sre_graph("undo", out)
        /\ UNCHANGED <<last_checks, attempt_conf>>

undo_node(how) ==
    LET max_retries == state.max_retries
        l1 == emit_event(log, "undo", "tnr_rollback")
        r  == undo_agent(state, how, nginx_conf, nginx_bak)
        l2 == l1 \o r.calls
        new_attempt == r.attempt_count
        l3 == emit_event(l2, "undo", UndoVerdictEvent(new_attempt, max_retries))
        out == [state EXCEPT !.attempt_count = r.attempt_count,
                             !.actions_taken = r.actions_taken,
                             !.mitigation_result = Some(r.mitigation_result)]
    IN  /\ state' = out
        /\ log' = l3
        /\ nginx_conf' = r.conf
        /\ nginx_bak' = r.bak
        /\ faults' = IF EnvFault(how) THEN faults + 1 ELSE faults
        /\ pc' = build_sre_graph("undo", out)
        /\ UNCHANGED <<last_checks, attempt_conf>>

UndoNode ==
    /\ pc = "undo"
    /\ \E how \in { h \in RollbackOutcomes : EnvFault(h) => faults < MaxControllerFaults } :
          undo_node(how)
    /\ UNCHANGED dashVars
    /\ bus' = Publish(bus, log, log')

(***************************************************************************)
(* The run.                                                                *)
(***************************************************************************)
Next == TriageNode \/ PlannerNode \/ MitigationNode \/ VerificationNode \/ UndoNode

Spec == Init /\ [][Next]_vars

\* graph.stream runs a node whenever one is due
FairSpec == Spec /\ WF_vars(Next)

(***************************************************************************)
(* dashboard/app.py: start_agent (234-318). Every POST /api/start-agent    *)
(* starts a thread that runs the graph on the same containers; no lock     *)
(* object is taken anywhere, lock_acquired and lock_released are events.   *)
(***************************************************************************)
\* max_retries of the initial_state the dashboard builds
DashboardMaxRetries == 3

DashInit == Init /\ state.max_retries = DashboardMaxRetries

\* what the thread of the second run works on when it reaches its mitigation_node
peer_state(p) == [initial_state(DashboardMaxRetries) EXCEPT !.mitigation_plan = Some(p)]

\* A second POST /api/start-agent while the first run is under way. The thread's
\* triage and planner nodes call no mutating tool and emit no lock event; the thread
\* is followed from its mitigation_node on.
PeerStartAgent ==
    /\ peer.pc = "absent"
    /\ pc \notin {"END", "crashed"}
    /\ peer' = [peer EXCEPT !.pc = "mitigation"]
    /\ UNCHANGED <<shop, cluster, bus, pc, state, nginx_conf, nginx_bak, faults, log, last_checks,
                   attempt_conf, cancel, runner_events>>

\* mitigation_node of the second run, up to the call of mitigation_agent
PeerLockAcquired ==
    /\ peer.pc = "mitigation"
    /\ peer' = [peer EXCEPT !.pc = "locked",
                            !.log = emit_event(emit_event(@, "mitigation", "lock_acquired"),
                                               "mitigation", "tnr_backup")]
    /\ UNCHANGED <<shop, cluster, bus, pc, state, nginx_conf, nginx_bak, faults, log, last_checks,
                   attempt_conf, cancel, runner_events>>

\* ... its call of mitigation_agent, on the plan p its planner gave
PeerMitigationAgent ==
    /\ peer.pc = "locked"
    /\ \E p \in Plans :
         \E how \in { h \in HowFor(Some(p)) : Charged(h, Some(p)) => faults < MaxControllerFaults },
            gen_raises \in (IF NeedsGeneration(Some(p)) THEN BOOLEAN ELSE {FALSE}),
            gen \in Generated :
              LET r == mitigation_agent(peer_state(p), how, gen_raises, gen, nginx_conf, nginx_bak)
              IN  /\ peer' = [peer EXCEPT !.pc = IF r.raised THEN "crashed" ELSE "applied",
                                          !.log = @ \o r.calls,
                                          !.success = r.mitigation_result.success]
                  /\ nginx_conf' = r.conf
                  /\ nginx_bak' = r.bak
                  /\ faults' = IF ~r.raised /\ Charged(how, Some(p)) THEN faults + 1 ELSE faults
    /\ UNCHANGED <<shop, cluster, bus, pc, state, log, last_checks, attempt_conf, cancel, runner_events>>

\* ... and the rest of its mitigation_node; the thread is not followed further
PeerLockReleased ==
    /\ peer.pc = "applied"
    /\ peer' = [peer EXCEPT !.pc = "verification",
                            !.log = emit_event(
                                        emit_event(emit_event(@, "mitigation", "tnr_apply"),
                                                   "mitigation",
                                                   IF peer.success THEN "conclusion"
                                                   ELSE "tnr_rollback"),
                                        "mitigation", "lock_released")]
    /\ UNCHANGED <<shop, cluster, bus, pc, state, nginx_conf, nginx_bak, faults, log, last_checks,
                   attempt_conf, cancel, runner_events>>

ConcurrentNext ==
    Next \/ PeerStartAgent \/ PeerLockAcquired \/ PeerMitigationAgent \/ PeerLockReleased

\* two runs started from the dashboard
ConcurrentSpec == DashInit /\ [][ConcurrentNext]_vars

\* a cancel request reaches the dashboard while run_agent drains graph.stream;
\* the loop body is `pass`: nothing reads the request
CancelRequest ==
    /\ cancel = Nothing
    /\ pc \notin {"END", "crashed"}
    /\ cancel' = Some(Len(log))
    /\ UNCHANGED <<shop, cluster, bus, pc, state, nginx_conf, nginx_bak, faults, log, last_checks,
                   attempt_conf, peer, runner_events>>

\* run_agent after graph.stream: the closing socket message, or the one of the
\* except branch when a node raised
RunAgentEnd ==
    /\ pc \in {"END", "crashed"}
    /\ runner_events = <<>>
    /\ runner_events' = IF pc = "END"
                        THEN <<Event("done", "tnr_commit")>>
                        ELSE <<Event("error", "circuit_breaker")>>
    /\ UNCHANGED <<shop, cluster, bus, pc, state, nginx_conf, nginx_bak, faults, log, last_checks,
                   attempt_conf, peer, cancel>>

RunnerNext == Next \/ CancelRequest \/ RunAgentEnd

\* one run started from the dashboard, followed to the end of its thread
RunnerSpec == DashInit /\ [][RunnerNext]_vars

(***************************************************************************)
(* The Target Controller on its own: a caller that invokes the three tools *)
(* of docker_tools directly, in any order.  log keeps each call and the    *)
(* outcome it had.                                                         *)
(***************************************************************************)
MaxCalls == 3

\* the texts nginx.conf can hold
Configs == {"conf_live", "conf_plan", "conf_llm"}

ControllerInit ==
    /\ pc = "controller"
    /\ state = initial_state(1)
    /\ nginx_conf \in Configs
    /\ nginx_bak \in {NoFile} \cup Configs
    /\ faults = 0
    /\ log = <<>>
    /\ last_checks = Nothing
    /\ attempt_conf = nginx_conf
    /\ peer = [pc |-> "absent", log |-> <<>>, success |-> FALSE]
    /\ cancel = Nothing
    /\ runner_events = <<>>
    /\ bus = NoCallback
    /\ cluster = Nothing
    /\ shop = NoShop

ControllerFrame ==
    UNCHANGED <<shop, cluster, bus, pc, state, faults, last_checks, attempt_conf, peer, cancel, runner_events>>

\* apply_nginx_config.invoke({"config_content": c})
ControllerApply ==
    /\ pc = "controller"
    /\ Len(log) < 2 * MaxCalls
    /\ \E c \in Configs : \E how \in ApplyOutcomes :
          LET r == apply_nginx_config(c, how, nginx_conf, nginx_bak)
          IN  /\ nginx_conf' = r.conf
              /\ nginx_bak' = r.bak
              /\ log' = log \o <<Call("apply_nginx_config", c),
                                 Returned("apply_nginx_config", how)>>
    /\ ControllerFrame

\* rollback_nginx_config.invoke({})
ControllerRollback ==
    /\ pc = "controller"
    /\ Len(log) < 2 * MaxCalls
    /\ \E how \in RollbackOutcomes :
          LET r == rollback_nginx_config(how, nginx_conf, nginx_bak)
          IN  /\ nginx_conf' = r.conf
              /\ nginx_bak' = r.bak
              /\ log' = log \o <<Call("rollback_nginx_config", NGINX_CONTAINER),
                                 Returned("rollback_nginx_config", how)>>
    /\ ControllerFrame

\* restart_container.invoke({"service_name": n}): nginx.conf and its backup are files
\* of the container and survive the restart
ControllerRestart ==
    /\ pc = "controller"
    /\ Len(log) < 2 * MaxCalls
    /\ \E n \in ManagedSet : \E how \in RestartOutcomes(n) :
          log' = log \o <<Call("restart_container", n), Returned("restart_container", how)>>
    /\ UNCHANGED <<nginx_conf, nginx_bak>>
    /\ ControllerFrame

ControllerNext == ControllerApply \/ ControllerRollback \/ ControllerRestart

ControllerSpec == ControllerInit /\ [][ControllerNext]_vars

(***************************************************************************)
(* Telemetry capture on any cluster: TRIAGE run on a snapshot in which any *)
(* subset of the managed containers is missing, stopped or unreachable.    *)
(***************************************************************************)
AnySnapshots ==
    { s \in [obs : { f \in [ManagedSet -> BusinessObs \cup GatewayObs] :
                         \A n \in ManagedSet : f[n] \in ObsOf(n) },
             root : {"200", "502", "unreachable"},
             products : BOOLEAN] :
        /\ (s.root # "unreachable") <=> (s.obs[NGINX_CONTAINER] = "running")
        /\ s.products => /\ s.obs[NGINX_CONTAINER] = "running"
                         /\ s.obs["product-service"] \in {"up200", "slow200"} }

\* triage_node, the snapshot kept in cluster
TelemetryTriage ==
    /\ pc = "triage"
    /\ \E snap \in AnySnapshots, raises \in BOOLEAN :
          \E d \in (IF raises THEN {CHOOSE x \in Diagnoses : TRUE} ELSE Diagnoses) :
              /\ triage_node(snap, raises, d)
              /\ cluster' = Some(snap)
    /\ UNCHANGED <<shop, peer, cancel, runner_events>>
    /\ bus' = Publish(bus, log, log')

TelemetryNext == TelemetryTriage

\* a dashboard run, followed through TRIAGE
TelemetrySpec == DashInit /\ [][TelemetryNext]_vars

(***************************************************************************)
(* The health check of validation_oracle on its own: the check is run once *)
(* on a cluster snapshot, kept in cluster; last_checks holds what it found.*)
(***************************************************************************)
SystemHealthCheck ==
    /\ cluster = Nothing
    /\ \E s \in Snapshots :
          /\ cluster' = Some(s)
          /\ last_checks' = Some([health_ok |-> ~Reading(s).has_issues,
                                  gateway_ok |-> Reading(s).gateway_ok,
                                  services_ok |-> Reading(s).services_ok])
    /\ UNCHANGED <<shop, bus, pc, state, nginx_conf, nginx_bak, faults, log, attempt_conf,
                   peer, cancel, runner_events>>

HealthCheckNext == SystemHealthCheck

HealthCheckSpec == Init /\ [][HealthCheckNext]_vars

(***************************************************************************)
(* A dashboard run with subscribers: handlers are registered before the    *)
(* graph starts, as run_agent does.                                        *)
(***************************************************************************)
MaxRegistrations == 2

SetEventCallback ==
    /\ pc = "triage"
    /\ log = <<>>
    /\ Len(bus.registered) < MaxRegistrations
    /\ \E cb \in Handlers :
          \* a registration that changes the subscriber
          /\ bus.callback # Some(cb)
          /\ bus' = set_event_callback(bus, cb)
    /\ UNCHANGED <<shop, cluster, pc, state, nginx_conf, nginx_bak, faults, log, last_checks,
                   attempt_conf, peer, cancel, runner_events>>

BusNext == Next \/ SetEventCallback

BusSpec == DashInit /\ [][BusNext]_vars

(***************************************************************************)
(* The demo shop the agent watches: product-service, payment-service and   *)
(* order-service (services/*/app.py).  Each is a Flask application started *)
(* with app.run, whose server handles every request in a thread of its     *)
(* own; the handlers of one service share its module-level dictionary      *)
(* (PRODUCTS, ORDERS) and take no lock.  An order is followed from the     *)
(* POST /orders request to its answer; where a handler may be interleaved  *)
(* with another (at an HTTP call, between two statements, between the read *)
(* and the write of an augmented assignment) it is cut into steps.         *)
(***************************************************************************)
MaxOrders == 2
MaxQty == 2
MaxStock == 2

\* P001 is a key of PRODUCTS, P999 is not
ProductIds == {"P001", "P999"}

OrderIds == 1..Len(shop.orders)

\* a POST /orders request that has not arrived yet
NoOrder ==
    [pc |-> "idle", product_id |-> None, qty |-> 1, code |-> 0,
     stock_ok |-> FALSE, paid |-> FALSE, reserve |-> "none",
     loaded |-> 0, had |-> 0, status |-> "none"]

\* GET /products/<product_id>/check-stock
check_stock(products, product_id, qty) ==
    IF product_id \notin DOMAIN products
    THEN [code |-> 404, available |-> FALSE]
    ELSE [code |-> 200, available |-> products[product_id] >= qty]

\* POST /payments
process_payment(simulate_failure) == IF simulate_failure THEN 500 ELSE 200

\* the request is answered with `code` and nothing is stored
Answer(o, code) == [shop EXCEPT !.orders[o].pc = "answered", !.orders[o].code = code]

\* create_order up to step 1: the request arrives
OrderReceive(o) ==
    /\ shop.orders[o].pc = "idle"
    /\ \E product_id \in ProductIds \cup {None}, qty \in 1..MaxQty :
          LET got == [shop EXCEPT !.orders[o].product_id = product_id,
                                  !.orders[o].qty = qty]
          IN  IF product_id = None
              THEN shop' = [got EXCEPT !.orders[o].pc = "answered", !.orders[o].code = 400]
              ELSE shop' = [got EXCEPT !.orders[o].pc = "step1"]

\* create_order, step 1: the stock check
OrderCheckStock(o) ==
    /\ shop.orders[o].pc = "step1"
    /\ \E reach \in {"ok", "unreachable"} :
          LET ord  == shop.orders[o]
              resp == check_stock(shop.products, ord.product_id, ord.qty)
          IN  IF reach = "unreachable" THEN shop' = Answer(o, 503)
              ELSE IF resp.code # 200 THEN shop' = Answer(o, 404)
              ELSE IF ~resp.available THEN shop' = Answer(o, 409)
              ELSE shop' = [shop EXCEPT !.orders[o].pc = "step2",
                                        !.orders[o].stock_ok = TRUE]

\* create_order, step 2: the payment
OrderPayment(o) ==
    /\ shop.orders[o].pc = "step2"
    /\ \E reach \in {"ok", "unreachable"} :
          IF reach = "unreachable" THEN shop' = Answer(o, 503)
          ELSE IF process_payment(shop.simulate_failure) # 200 THEN shop' = Answer(o, 402)
          ELSE shop' = [shop EXCEPT !.orders[o].pc = "step3", !.orders[o].paid = TRUE]

\* create_order, step 3: the reserve request is sent; a RequestException is logged
\* and the handler goes on
OrderReserve(o) ==
    /\ shop.orders[o].pc = "step3"
    /\ \E reach \in {"ok", "unreachable"} :
          IF reach = "unreachable"
          THEN shop' = [shop EXCEPT !.orders[o].pc = "confirm",
                                    !.orders[o].reserve = "unreachable"]
          ELSE shop' = [shop EXCEPT !.orders[o].pc = "reserve_check"]

\* reserve_stock up to the comparison product["stock"] < qty
ReserveCheck(o) ==
    /\ shop.orders[o].pc = "reserve_check"
    /\ LET ord == shop.orders[o]
       IN  IF ord.product_id \notin DOMAIN shop.products
           THEN shop' = [shop EXCEPT !.orders[o].pc = "confirm",
                                     !.orders[o].reserve = "not_found"]
           ELSE IF shop.products[ord.product_id] < ord.qty
           THEN shop' = [shop EXCEPT !.orders[o].pc = "confirm",
                                     !.orders[o].reserve = "refused"]
           ELSE shop' = [shop EXCEPT !.orders[o].pc = "reserve_load"]

\* product["stock"] -= qty, the read of product["stock"]
ReserveLoad(o) ==
    /\ shop.orders[o].pc = "reserve_load"
    /\ shop' = [shop EXCEPT !.orders[o].pc = "reserve_store",
                            !.orders[o].loaded = shop.products[shop.orders[o].product_id]]

\* product["stock"] -= qty, the write, and the answer reserved = true; had is the
\* stock the write replaces
ReserveStore(o) ==
    /\ shop.orders[o].pc = "reserve_store"
    /\ LET ord == shop.orders[o]
       IN  shop' = [shop EXCEPT !.products[ord.product_id] = ord.loaded - ord.qty,
                                !.orders[o].had = shop.products[ord.product_id],
                                !.orders[o].reserve = "reserved",
                                !.orders[o].pc = "confirm"]

\* create_order after step 3: the order is stored and answered with 201
OrderConfirm(o) ==
    /\ shop.orders[o].pc = "confirm"
    /\ shop' = [shop EXCEPT !.orders[o].status = "confirmed",
                            !.orders[o].code = 201,
                            !.orders[o].pc = "answered"]

ShopInit ==
    /\ pc = "shop"
    /\ state = initial_state(1)
    /\ nginx_conf = "conf_live"
    /\ nginx_bak = NoFile
    /\ faults = 0
    /\ log = <<>>
    /\ last_checks = Nothing
    /\ attempt_conf = nginx_conf
    /\ peer = [pc |-> "absent", log |-> <<>>, success |-> FALSE]
    /\ cancel = Nothing
    /\ runner_events = <<>>
    /\ bus = NoCallback
    /\ cluster = Nothing
    /\ \E n \in 0..MaxStock, f \in BOOLEAN :
          shop = [products |-> [p \in {"P001"} |-> n],
                  simulate_failure |-> f,
                  orders |-> [o \in 1..MaxOrders |-> NoOrder]]

ShopFrame ==
    UNCHANGED <<pc, state, nginx_conf, nginx_bak, faults, log, last_checks, attempt_conf,
                peer, cancel, runner_events, bus, cluster>>

ShopReceive == (\E o \in OrderIds : OrderReceive(o)) /\ ShopFrame
ShopCheckStock == (\E o \in OrderIds : OrderCheckStock(o)) /\ ShopFrame
ShopPayment == (\E o \in OrderIds : OrderPayment(o)) /\ ShopFrame
ShopReserve == (\E o \in OrderIds : OrderReserve(o)) /\ ShopFrame
ShopReserveCheck == (\E o \in OrderIds : ReserveCheck(o)) /\ ShopFrame
ShopReserveLoad == (\E o \in OrderIds : ReserveLoad(o)) /\ ShopFrame
ShopReserveStore == (\E o \in OrderIds : ReserveStore(o)) /\ ShopFrame
ShopConfirm == (\E o \in OrderIds : OrderConfirm(o)) /\ ShopFrame

ShopNext ==
    \/ ShopReceive \/ ShopCheckStock \/ ShopPayment \/ ShopReserve
    \/ ShopReserveCheck \/ ShopReserveLoad \/ ShopReserveStore \/ ShopConfirm

ShopSpec == ShopInit /\ [][ShopNext]_vars

(***************************************************************************)
(* Reading the log.                                                        *)
(***************************************************************************)
Max(S) == CHOOSE x \in S : \A y \in S : y <= x
Min(S) == CHOOSE x \in S : \A y \in S : x <= y

Terminated == pc \in {"END", "crashed"}

\* positions of the events of a type, and of the calls of an operation
EventsAt(type) == {i \in 1..Len(log) : log[i].kind = "event" /\ log[i].name = type}
CallsAt(op) == {i \in 1..Len(log) : log[i].kind = "call" /\ log[i].name = op}
MutatingCallsAt == {i \in 1..Len(log) : log[i].kind = "call" /\ log[i].name \in MutatingOps}
PhaseEventsAt(phase) == {i \in 1..Len(log) : log[i].kind = "event" /\ log[i].arg = phase}

\* the lock events before position k
LockEventsBefore(k) == {i \in (EventsAt("lock_acquired") \cup EventsAt("lock_released")) : i < k}

\* is position k between a lock_acquired and its lock_released
LockHeldAt(k) ==
    /\ LockEventsBefore(k) # {}
    /\ log[Max(LockEventsBefore(k))].name = "lock_acquired"

(***************************************************************************)
(* C1. In every run the phases follow only these transitions: TRIAGE goes  *)
(* to PLAN or terminates, PLAN goes to MITIGATE, MITIGATE goes to VERIFY   *)
(* whatever the result, VERIFY terminates or goes to UNDO, UNDO goes to    *)
(* MITIGATE or terminates; PLAN and MITIGATE never end the run.            *)
(* Refuted: a raising oracle call ends the run in PLAN or in MITIGATE.     *)
(***************************************************************************)
ClaimedTransitions ==
    { <<"triage", "planner">>, <<"triage", "END">>, <<"triage", "crashed">>,
      <<"planner", "mitigation">>,
      <<"mitigation", "verification">>,
      <<"verification", "END">>, <<"verification", "undo">>,
      <<"undo", "mitigation">>, <<"undo", "END">> }

C1_PhaseTransitions == [][pc' # pc => <<pc, pc'>> \in ClaimedTransitions]_vars

(***************************************************************************)
(* C2. attempt_count never exceeds max_retries; once it equals max_retries *)
(* with overall_status not healthy, the run is over: it has ended through  *)
(* the circuit-breaker exit of UNDO and no MITIGATE is due.                *)
(***************************************************************************)
C2_RetryBound ==
    /\ state.attempt_count <= state.max_retries
    /\ (state.attempt_count = state.max_retries /\ state.overall_status # "healthy")
          => /\ pc = "END"
             /\ log[Len(log)] = Event("undo", "circuit_breaker")

C2_Witness ==
    /\ pc = "END"
    /\ state.max_retries = 3
    /\ state.attempt_count = 3
    /\ state.overall_status # "healthy"

NextMitigateAfter(i) == Min({j \in EventsAt("lock_acquired") : j > i} \cup {Len(log) + 1})

RollbacksBetween(i, j) == {k \in CallsAt("rollback_nginx_config") : i < k /\ k < j}

C4_RollbackAfterFailedVerify ==
    /\ \A i \in {k \in EventsAt("tnr_rollback") : log[k].arg = "verification"} :
          LET j == NextMitigateAfter(i)
          IN  /\ Cardinality(RollbacksBetween(i, j)) <= 1
              /\ (j <= Len(log) \/ Terminated) => Cardinality(RollbacksBetween(i, j)) = 1
              /\ \A k \in RollbacksBetween(i, j) : log[k - 1] = Event("undo", "tnr_rollback")
    /\ \A i \in EventsAt("tnr_commit") : \A k \in MutatingCallsAt : k < i
    /\ (pc = "undo") => state.overall_status # "healthy"

C4_Witness ==
    /\ pc = "END"
    /\ EventsAt("tnr_commit") # {}
    /\ \E i \in EventsAt("tnr_rollback") :
          /\ log[i].arg = "verification"
          /\ NextMitigateAfter(i) <= Len(log)
          /\ Cardinality(RollbacksBetween(i, NextMitigateAfter(i))) = 1

(***************************************************************************)
(* C5. Each pass through MITIGATE increments attempt_count by exactly 1    *)
(* and attempt_count is never decremented, so that a run healthy after its *)
(* first attempt ends with attempt_count = 1.                              *)
(* Refuted: mitigation_node leaves attempt_count alone; undo_agent counts. *)
(***************************************************************************)
C5_MitigateIncrements ==
    [][ /\ state'.attempt_count >= state.attempt_count
        /\ (pc = "mitigation" /\ pc' = "verification")
              => state'.attempt_count = state.attempt_count + 1 ]_vars

(***************************************************************************)
(* C6. After a diagnosis with no symptoms the run is over at once: no      *)
(* planning call, no controller call, an empty actions_taken. Conversely   *)
(* PLAN is entered only with a symptom.                                    *)
(***************************************************************************)
TriageReturned == state.pre_fix_health # <<>>

C6_NoSymptomShortCircuit ==
    /\ (TriageReturned /\ Len(state.symptoms) = 0)
          => /\ pc = "END"
             /\ CallsAt("plan") = {}
             /\ MutatingCallsAt = {}
             /\ PhaseEventsAt("planner") = {}
             /\ state.actions_taken = <<>>
    /\ (pc = "planner" \/ PhaseEventsAt("planner") # {}) => Len(state.symptoms) > 0

C6_Witness ==
    /\ pc = "END"
    /\ TriageReturned
    /\ Len(state.symptoms) = 0
    /\ state.overall_status = "critical"

(***************************************************************************)
(* C7. The overall_status VERIFY stores is healthy iff all three checks    *)
(* pass: System Health Check, Gateway Probe, Direct Target Probes.         *)
(* Refuted: validation_oracle never runs the direct probes.                *)
(***************************************************************************)
C7_VerdictConjunction ==
    last_checks # Nothing
        => ((state.overall_status = "healthy")
               <=> (/\ last_checks[1].health_ok
                    /\ last_checks[1].gateway_ok
                    /\ last_checks[1].services_ok))

C9_LockPairs ==
    LET acq == EventsAt("lock_acquired")
        rel == EventsAt("lock_released")
    IN  /\ \A i \in rel : LockHeldAt(i)
        /\ \A i \in acq : ~LockHeldAt(i)
        /\ Terminated => Cardinality(acq) = Cardinality(rel)

(***************************************************************************)
(* C10. Every mutating controller call (restart, apply config, rollback)   *)
(* happens between a lock_acquired event and its lock_released event.      *)
(* Refuted: undo_node calls the rollback with no lock event around it.     *)
(***************************************************************************)
C10_MutationsUnderLock == \A k \in MutatingCallsAt : LockHeldAt(k)

(***************************************************************************)
(* C11. With two runs on the same targets, no run emits lock_acquired or   *)
(* issues a mutating controller call while the other run is between its    *)
(* lock_acquired and its lock_released.                                    *)
(* Refuted: the lock is only a pair of events; nothing makes a run wait.   *)
(***************************************************************************)
\* the second run is between its lock_acquired and its lock_released
PeerHoldsLock == peer.pc \in {"locked", "applied"}

\* the positions of l where the first run takes the lock or mutates a target
LockOrMutation(l) ==
    {i \in 1..Len(l) : \/ l[i] = Event("mitigation", "lock_acquired")
                       \/ (l[i].kind = "call" /\ l[i].name \in MutatingOps)}

C11_OneMitigationAtATime ==
    [][PeerHoldsLock => LockOrMutation(log') = LockOrMutation(log)]_vars

(***************************************************************************)
(* C12. When an oracle call (diagnosis, planning, config generation) or a  *)
(* controller call raises, the error is caught at the phase boundary: the  *)
(* run never crashes.                                                      *)
(* Refuted: the three oracle calls are made outside any try/except.        *)
(***************************************************************************)
C12_ErrorsCaught == pc # "crashed"

(***************************************************************************)
(* C13. When the Planning Oracle returns no plan (None), the run ends      *)
(* healthy right after PLAN, with no pass through MITIGATE and no          *)
(* controller call; so MITIGATE never runs without a plan.                 *)
(* Refuted: planner_agent reads plan.root_cause of the None and the run    *)
(* crashes in PLAN; the graph has no edge from planner to END.             *)
(***************************************************************************)
PlannerAnsweredNone == \E i \in 1..Len(log) : log[i] = Returned("plan", "None")

C13_NoPlanEndsHealthy ==
    /\ PlannerAnsweredNone => /\ pc = "END"
                              /\ Passes(log) = 0
                              /\ MutatingCallsAt = {}
    /\ Passes(log) > 0 => state.mitigation_plan # Nothing

(***************************************************************************)
(* C14. When the rollback of UNDO has completed, nginx.conf is what it was *)
(* immediately before the MITIGATE of that attempt, whatever the action    *)
(* taken and whatever nginx.conf.bak earlier attempts or runs left behind. *)
(* Refuted: only apply_nginx_config writes the backup; after a restart the *)
(* rollback copies a backup that predates the attempt over nginx.conf.     *)
(***************************************************************************)
\* undo_node was the last node to run, and its rollback reported completion
UndoRollbackCompleted ==
    /\ Len(log) > 0
    /\ log[Len(log)].arg = "undo"
    /\ state.mitigation_result # Nothing
    /\ state.mitigation_result[1].message = rollback_nginx_config("run", "conf", "conf").msg

C14_UndoRestoresConfig == UndoRollbackCompleted => nginx_conf = attempt_conf

(***************************************************************************)
(* C15. Whenever the controller operation MITIGATE dispatched has failed   *)
(* (restart fails, apply_config fails, rollback_config finds no backup or  *)
(* errors out), the MitigationResult recorded has success = FALSE.         *)
(* Refuted: for rollback_config, success is "completed" or "rollback" in   *)
(* the message, and both failure messages of the tool say "rollback".      *)
(***************************************************************************)
\* the messages with which the three tools report a failure
ControllerFailureMessages ==
    { restart_container(p.target_service, h) : p \in Plans, h \in {"absent", "exception"} }
    \cup { apply_nginx_config("conf", h, "conf", "conf").msg : h \in ApplyOutcomes \ {"ok"} }
    \cup { rollback_nginx_config(h, "conf", "conf").msg : h \in {"absent", "exception"} }
    \cup { rollback_nginx_config("run", "conf", NoFile).msg }

C15_FailureNeverSuccess ==
    (/\ state.mitigation_result # Nothing
     /\ state.mitigation_result[1].action_taken
            \in {"restart_container", "update_config", "rollback_config"}
     /\ state.mitigation_result[1].message \in ControllerFailureMessages)
        => ~state.mitigation_result[1].success

(***************************************************************************)
(* C16. When the plan's target is not a managed target, the attempt fails  *)
(* for every action type: success = FALSE and nothing is mutated; the run  *)
(* goes on to VERIFY.                                                      *)
(* Refuted: only restart_container looks the target up; update_config and  *)
(* rollback_config act on the api-gateway whatever the plan's target is.   *)
(***************************************************************************)
\* mitigation_node was the last node to run and returned
MitigationJustRan ==
    /\ Len(log) > 0
    /\ log[Len(log)] = Event("mitigation", "lock_released")
    /\ state.mitigation_result # Nothing

C16_UnknownTargetFails ==
    (/\ MitigationJustRan
     /\ state.mitigation_result[1].action_taken
            \in {"restart_container", "update_config", "rollback_config"}
     /\ state.mitigation_result[1].target_service \notin ManagedSet)
        => /\ ~state.mitigation_result[1].success
           /\ nginx_conf = attempt_conf
           /\ pc = "verification"

(***************************************************************************)
(* C17. Once a cancel request has arrived and the phase in flight has      *)
(* completed, the run starts no further phase, and it ends with a          *)
(* "cancelled" event.                                                      *)
(* Refuted: nothing in run_agent or in the graph reads a cancel request.   *)
(***************************************************************************)
\* a phase has completed since the request
PhaseCompletedSinceCancel == cancel # Nothing /\ Len(log) > cancel[1]

CancelledEventEmitted ==
    \/ EventsAt("cancelled") # {}
    \/ \E i \in 1..Len(runner_events) : runner_events[i].name = "cancelled"

C17_CancelStopsRun ==
    [][/\ PhaseCompletedSinceCancel => log' = log
       /\ (cancel' # Nothing /\ runner_events' # <<>>) => CancelledEventEmitted']_vars

(***************************************************************************)
(* C18. A run that ends with the circuit breaker open is not reported as a *)
(* success: overall_status is not healthy and no tnr_commit event follows  *)
(* the circuit_breaker event, from the engine or from the dashboard runner.*)
(* Refuted: run_agent sends its closing tnr_commit message whenever        *)
(* graph.stream returns.                                                   *)
(***************************************************************************)
CircuitBreakerOpen == pc = "END" /\ EventsAt("circuit_breaker") # {}

C18_BreakerNotSuccess ==
    CircuitBreakerOpen =>
        /\ state.overall_status # "healthy"
        /\ \A i \in EventsAt("tnr_commit") : i < Min(EventsAt("circuit_breaker"))
        /\ \A i \in 1..Len(runner_events) : runner_events[i].name # "tnr_commit"

(***************************************************************************)
(* C19. pre_fix_health is written once per run, by the TRIAGE pass: TRIAGE *)
(* stores the health report it gathered, TRIAGE never runs again, and no   *)
(* step of PLAN, MITIGATE, VERIFY or UNDO, retries included, changes it.   *)
(***************************************************************************)
HealthReports == {check_all_services_health(s) : s \in TriageSnapshots}

C19_PreFixHealthFrame ==
    [][/\ state'.pre_fix_health # state.pre_fix_health => pc = "triage"
       /\ pc # "triage" => pc' # "triage"
       /\ (pc = "triage" /\ pc' # "crashed") => state'.pre_fix_health \in HealthReports]_vars

\* a run that retried twice and ended with the snapshot TRIAGE took
C19_Witness ==
    /\ pc = "END"
    /\ state.attempt_count >= 2
    /\ Cardinality(PhaseEventsAt("undo")) >= 4
    /\ state.pre_fix_health \in HealthReports

(***************************************************************************)
(* C20. When nginx -t rejects the config apply_nginx_config has written,   *)
(* the call reports a failure and nginx.conf is what it was before the     *)
(* call: the rejected content is not left in place.                        *)
(***************************************************************************)
ConfigTestFailed(st) ==
    /\ st.mitigation_result # Nothing
    /\ st.mitigation_result[1].action_taken = "update_config"
    /\ st.mitigation_result[1].message
           = apply_nginx_config("conf", "test_failed", "conf", "conf").msg

C20_TestFailureReverts ==
    [][(pc = "mitigation" /\ ConfigTestFailed(state'))
           => /\ nginx_conf' = nginx_conf
              /\ ~state'.mitigation_result[1].success]_vars

\* a retry whose config is rejected: nginx.conf is the config the attempt started
\* from, which is also what the backup holds
C20_Witness ==
    /\ MitigationJustRan
    /\ ConfigTestFailed(state)
    /\ state.attempt_count >= 1
    /\ nginx_conf = attempt_conf
    /\ nginx_bak = nginx_conf

(***************************************************************************)
(* C21. rollback_nginx_config puts back the snapshot apply_nginx_config    *)
(* took last: every apply that gets as far as its backup step stores the   *)
(* config then in force, nothing else writes the backup, and a completed   *)
(* rollback makes nginx.conf equal to it.  Without a backup file the       *)
(* rollback does not complete and nginx.conf is unchanged.                 *)
(***************************************************************************)
\* the step calls the controller operation op
CalledInStep(op) ==
    \E i \in (Len(log) + 1)..Len(log') : log'[i].kind = "call" /\ log'[i].name = op

RollbackCompletedMsg == rollback_nginx_config("run", "conf", "conf").msg

\* what apply_nginx_config answers once its backup step has run
AfterBackupMsgs ==
    {apply_nginx_config("conf", how, "conf", "conf").msg :
        how \in {"write_failed", "test_failed", "reload_failed", "ok"}}

C21_RollbackRestoresSnapshot ==
    [][/\ (CalledInStep("rollback_nginx_config")
              /\ state'.mitigation_result[1].message = RollbackCompletedMsg)
          => (nginx_bak # NoFile /\ nginx_conf' = nginx_bak)
       /\ (CalledInStep("rollback_nginx_config") /\ nginx_bak = NoFile)
          => /\ state'.mitigation_result[1].message # RollbackCompletedMsg
             /\ nginx_conf' = nginx_conf
             /\ nginx_bak' = NoFile
       /\ (CalledInStep("apply_nginx_config")
              /\ state'.mitigation_result[1].message \in AfterBackupMsgs)
          => nginx_bak' = nginx_conf
       /\ ~CalledInStep("apply_nginx_config") => nginx_bak' = nginx_bak]_vars

\* UNDO has just rolled back a config that MITIGATE applied
C21_Witness ==
    /\ Len(log) > 0
    /\ log[Len(log)].arg = "undo"
    /\ state.mitigation_result # Nothing
    /\ state.mitigation_result[1].message = RollbackCompletedMsg
    /\ \E i \in CallsAt("apply_nginx_config") :
            /\ log[i].arg # nginx_conf
            /\ \A k \in MutatingCallsAt : k > i => log[k].name = "rollback_nginx_config"
    /\ nginx_conf = nginx_bak

(***************************************************************************)
(* C22. Retrying a controller operation changes nothing: an apply of the   *)
(* same content right after one that succeeded, or a rollback right after  *)
(* one that ran, leaves nginx.conf and the stored snapshot as the first    *)
(* call left them.                                                         *)
(* Refuted: the second apply takes its snapshot of the config the first    *)
(* one wrote, so the snapshot of the original config is lost.              *)
(***************************************************************************)
\* the step repeats, with the same argument and outcome, the call the log ends with
RetryOf(op, how) ==
    /\ Len(log) >= 2
    /\ log[Len(log) - 1].kind = "call"
    /\ log[Len(log) - 1].name = op
    /\ log[Len(log)] = Returned(op, how)
    /\ log' = log \o <<log[Len(log) - 1], log[Len(log)]>>

C22_RetryIdempotent ==
    [][(\/ RetryOf("apply_nginx_config", "ok")
        \/ RetryOf("rollback_nginx_config", "run")
        \/ RetryOf("restart_container", "ok"))
           => (nginx_conf' = nginx_conf /\ nginx_bak' = nginx_bak)]_vars

(***************************************************************************)
(* C23. A subscriber that raises does not disturb the run: emit_event      *)
(* catches the exception, so none leaves emit_event, and every event the   *)
(* run emits, those after a failed delivery included, is passed to the     *)
(* subscriber.                                                             *)
(***************************************************************************)
EventsOf(l) == SelectSeq(l, LAMBDA x : x.kind = "event")

C23_SubscriberFailureContained ==
    /\ ~bus.raised
    /\ bus.callback # Nothing
          => [i \in 1..Len(bus.delivered) |-> bus.delivered[i].event] = EventsOf(log)

\* a run that went through three retries to the circuit breaker with a subscriber
\* that raised several times, and still delivered the last event
C23_Witness ==
    /\ pc = "END"
    /\ bus.callback = Some("raising_handler")
    /\ bus.errors >= 3
    /\ EventsAt("circuit_breaker") # {}
    /\ bus.delivered[Len(bus.delivered)].event = Event("undo", "circuit_breaker")

(***************************************************************************)
(* C24. Every event reaches all registered subscribers: each handler that  *)
(* was registered before the run receives every event of the run.          *)
(* Refuted: _event_callback is one slot; the second registration replaces  *)
(* the first handler.                                                      *)
(***************************************************************************)
DeliveredTo(cb) == SelectSeq(bus.delivered, LAMBDA d : d.to = cb)

C24_AllSubscribersReached ==
    \A k \in 1..Len(bus.registered) :
        Len(DeliveredTo(bus.registered[k])) = Len(EventsOf(log))

(***************************************************************************)
(* C25. Telemetry capture does not fail when containers do: whatever       *)
(* subset of the managed containers is missing, stopped or unreachable,    *)
(* the health report has exactly one line for each managed container, a    *)
(* missing one marked NOT_FOUND, a stopped one CONTAINER_..., an           *)
(* unreachable one UNREACHABLE, and TRIAGE goes on to ask for the          *)
(* diagnosis and stores the one it gets.                                   *)
(***************************************************************************)
StartsWith(s, prefix) == Len(s) >= Len(prefix) /\ SubSeq(s, 1, Len(prefix)) = prefix

EntriesFor(report, name) == {i \in 1..Len(report) : StartsWith(report[i], name \o ": ")}

C25_TelemetryTotal ==
    cluster # Nothing =>
        /\ CallsAt("diagnose") # {}
        /\ pc # "crashed" =>
              /\ state.overall_status # ""
              /\ \A n \in ManagedSet :
                    LET entries == EntriesFor(state.pre_fix_health, n)
                        o == cluster[1].obs[n]
                    IN  /\ Cardinality(entries) = 1
                        /\ \A i \in entries :
                              LET line == state.pre_fix_health[i]
                              IN  /\ o = "absent" => line = n \o ": NOT_FOUND"
                                  /\ o \in {"exited", "paused"}
                                        => StartsWith(line, n \o ": CONTAINER_")
                                  /\ o = "unreachable"
                                        => StartsWith(line, n \o ": UNREACHABLE")

\* every managed container is failing, each in its own way, and TRIAGE has diagnosed
C25_Witness ==
    /\ cluster # Nothing
    /\ cluster[1].obs["order-service"] = "absent"
    /\ cluster[1].obs["product-service"] = "exited"
    /\ cluster[1].obs["payment-service"] = "unreachable"
    /\ cluster[1].obs[NGINX_CONTAINER] = "paused"
    /\ pc = "planner"
    /\ Len(state.pre_fix_health) = Len(MANAGED_CONTAINERS) + 1

(***************************************************************************)
(* C26. The system health check passes only when every managed container   *)
(* is running and every probed /health endpoint answers 200: a container   *)
(* that is missing, in any state other than running, or unhealthy or       *)
(* unreachable on /health makes it fail.                                   *)
(* Refuted: only CONTAINER_STOPPED and CONTAINER_EXITED are among the      *)
(* markers; a paused container passes.                                     *)
(***************************************************************************)
C26_HealthCheckStrict ==
    (cluster # Nothing /\ last_checks # Nothing /\ last_checks[1].health_ok)
        => \A n \in ManagedSet : cluster[1].obs[n] \in {"up200", "slow200", "running"}

(***************************************************************************)
(* C27. actions_taken is append-only: every step keeps the entries it      *)
(* finds, a MITIGATE pass and an UNDO pass that complete each append       *)
(* exactly one entry, and no other step appends.  Its length is therefore  *)
(* the number of MITIGATE and UNDO passes completed.                       *)
(***************************************************************************)
C27_ActionsLogAppendOnly ==
    [][/\ Len(state'.actions_taken) >= Len(state.actions_taken)
       /\ SubSeq(state'.actions_taken, 1, Len(state.actions_taken)) = state.actions_taken
       /\ Len(state'.actions_taken) - Len(state.actions_taken)
             = IF pc \in {"mitigation", "undo"} /\ pc' # "crashed" THEN 1 ELSE 0]_vars

\* three attempts, each undone: six entries
C27_Witness ==
    /\ pc = "END"
    /\ state.attempt_count = 3
    /\ Len(state.actions_taken) = 6
    /\ Cardinality(EventsAt("lock_released")) = 3

(***************************************************************************)
(* C28. A retry re-executes the plan the run already has: the diagnosis    *)
(* call and the planning call are each made at most once in a run, and no  *)
(* step of MITIGATE, VERIFY or UNDO changes symptoms or mitigation_plan.   *)
(***************************************************************************)
OracleCalls(l, op) == Cardinality({i \in 1..Len(l) : l[i].kind = "call" /\ l[i].name = op})

C28_SamePlanOnRetry ==
    [][/\ OracleCalls(log', "diagnose") <= 1
       /\ OracleCalls(log', "plan") <= 1
       /\ pc \in {"mitigation", "verification", "undo"}
             => /\ state'.symptoms = state.symptoms
                /\ state'.mitigation_plan = state.mitigation_plan]_vars

\* a run that retried with its one plan, asking for the config text again each time
C28_Witness ==
    /\ pc = "END"
    /\ state.attempt_count >= 2
    /\ state.mitigation_plan # Nothing
    /\ OracleCalls(log, "plan") = 1
    /\ OracleCalls(log, "diagnose") = 1
    /\ OracleCalls(log, "generate_config") >= 2

(***************************************************************************)
(* C29. MITIGATE snapshots before it mutates: in every pass the tnr_backup *)
(* event comes before the controller call, and whenever the pass changes   *)
(* nginx.conf the backup then holds the config that was in force before    *)
(* the change.                                                             *)
(* Refuted: rollback_config overwrites nginx.conf with the old backup and  *)
(* keeps no copy of what it overwrote.                                     *)
(***************************************************************************)
C29_SnapshotBeforeMutation ==
    [][pc = "mitigation"
          => /\ \A k \in (Len(log) + 1)..Len(log') :
                   (log'[k].kind = "call" /\ log'[k].name \in MutatingOps)
                      => \E j \in (Len(log) + 1)..(k - 1) :
                             log'[j] = Event("mitigation", "tnr_backup")
             /\ nginx_conf' # nginx_conf => nginx_bak' = nginx_conf]_vars

(***************************************************************************)
(* C30. MITIGATE dispatches on the plan's action and makes at most one     *)
(* controller call per pass: one restart_container on the plan's target,   *)
(* or one apply_nginx_config, or one rollback_nginx_config, and none for   *)
(* any other action or without a plan.  The config-generation call is made *)
(* exactly when the action is update_config and the plan carries no        *)
(* config, on the first pass and on every retry.                           *)
(***************************************************************************)
\* the calls of the step, by name
StepCalls(op) ==
    {k \in (Len(log) + 1)..Len(log') : log'[k].kind = "call" /\ log'[k].name = op}

\* the controller calls the plan asks for, as <<operation, argument>>: one call, with
\* any generated text when the plan carries no config, or none
Dispatched(plan) ==
    IF plan = Nothing THEN {}
    ELSE CASE plan[1].action_type = "restart_container"
                -> {<<"restart_container", plan[1].target_service>>}
           [] plan[1].action_type = "update_config"
                -> IF plan[1].config_content # None
                   THEN {<<"apply_nginx_config", plan[1].config_content>>}
                   ELSE {<<"apply_nginx_config", c>> : c \in Generated}
           [] plan[1].action_type = "rollback_config"
                -> {<<"rollback_nginx_config", NGINX_CONTAINER>>}
           [] OTHER -> {}

C30_OneOperationPerPass ==
    [][pc = "mitigation"
          => LET plan == state.mitigation_plan
                 want == Dispatched(plan)
                 made == UNION {StepCalls(op) : op \in MutatingOps}
             IN  /\ Cardinality(made) <= 1
                 /\ pc' # "crashed"
                       => /\ Cardinality(made) = (IF want = {} THEN 0 ELSE 1)
                          /\ \A k \in made : <<log'[k].name, log'[k].arg>> \in want
                 /\ Cardinality(StepCalls("generate_config"))
                       = (IF NeedsGeneration(plan) THEN 1 ELSE 0)]_vars

\* three passes of an update_config plan without config: three generations, three
\* applies
C30_Witness ==
    /\ pc = "END"
    /\ NeedsGeneration(state.mitigation_plan)
    /\ Passes(log) = 3
    /\ OracleCalls(log, "generate_config") = 3
    /\ OracleCalls(log, "apply_nginx_config") = 3

(***************************************************************************)
(* C31. For a plan whose action is scale_service, MITIGATE makes no        *)
(* controller call, records a failed MitigationResult, appends exactly one *)
(* actions_log entry and hands over to VERIFY; when validation then fails  *)
(* the run goes to UNDO, which calls rollback_nginx_config once and adds   *)
(* one to attempt_count.                                                   *)
(***************************************************************************)
ScalePlan ==
    /\ state.mitigation_plan # Nothing
    /\ state.mitigation_plan[1].action_type = "scale_service"

C31_ScaleServiceFailsAndIsCharged ==
    [][ScalePlan
          => /\ pc = "mitigation"
                => /\ \A op \in MutatingOps : StepCalls(op) = {}
                   /\ state'.mitigation_result # Nothing
                   /\ ~state'.mitigation_result[1].success
                   /\ Len(state'.actions_taken) = Len(state.actions_taken) + 1
                   /\ SubSeq(state'.actions_taken, 1, Len(state.actions_taken))
                         = state.actions_taken
                   /\ pc' = "verification"
             /\ (pc = "verification" /\ state'.overall_status # "healthy")
                => pc' = "undo"
             /\ pc = "undo"
                => /\ Cardinality(StepCalls("rollback_nginx_config")) = 1
                   /\ state'.attempt_count = state.attempt_count + 1]_vars

\* a scale_service plan that ran out of retries: every pass failed validation and was
\* rolled back and counted
C31_Witness ==
    /\ pc = "END"
    /\ ScalePlan
    /\ state.attempt_count = state.max_retries
    /\ state.attempt_count >= 2
    /\ OracleCalls(log, "rollback_nginx_config") = state.attempt_count
    /\ OracleCalls(log, "restart_container") = 0
    /\ OracleCalls(log, "apply_nginx_config") = 0

(***************************************************************************)
(* C32. A run that ends straight after TRIAGE because the symptom list is  *)
(* empty ends with overall_status = healthy, whatever overall status the   *)
(* diagnosis carried.                                                      *)
(***************************************************************************)
EndedFromTriage ==
    /\ pc = "END"
    /\ Len(state.symptoms) = 0
    /\ PhaseEventsAt("planner") = {}
    /\ CallsAt("diagnose") # {}

C32_NoSymptomsEndsHealthy ==
    EndedFromTriage => state.overall_status = "healthy"

(***************************************************************************)
(* C33. attempt_count always equals the number of UNDO passes of the run:  *)
(* an UNDO pass adds exactly one, and TRIAGE, PLAN, MITIGATE and VERIFY    *)
(* leave it unchanged; a run that ends healthy after k failed attempts has *)
(* made k + 1 MITIGATE passes and has attempt_count = k.                   *)
(***************************************************************************)
\* the UNDO passes of the run, by the event undo_node opens with
UndoPasses(l) == Cardinality({i \in 1..Len(l) : l[i] = Event("undo", "tnr_rollback")})

C33_AttemptCountIsUndoCount ==
    /\ [](/\ state.attempt_count = UndoPasses(log)
          /\ (pc = "END" /\ state.overall_status = "healthy" /\ Passes(log) > 0)
                => Passes(log) = state.attempt_count + 1)
    /\ [][/\ pc = "undo" => state'.attempt_count = state.attempt_count + 1
          /\ pc # "undo" => state'.attempt_count = state.attempt_count]_vars

\* healthy at the third pass, after two attempts that were undone
C33_Witness ==
    /\ pc = "END"
    /\ state.overall_status = "healthy"
    /\ state.attempt_count = 2
    /\ UndoPasses(log) = 2
    /\ Passes(log) = 3

(***************************************************************************)
(* C34. Every lock_acquired event is followed by a lock_released event of  *)
(* the same run, also when the mitigation fails or the config generation   *)
(* raises inside MITIGATE: no run has stopped, normally or by an error,    *)
(* with the action lock still held.                                        *)
(***************************************************************************)
C34_LockReleasedAtStop ==
    Terminated
       => /\ \A i \in EventsAt("lock_acquired") :
                \E j \in EventsAt("lock_released") : j > i
          /\ ~LockHeldAt(Len(log) + 1)

(***************************************************************************)
(* C35. Within one mitigation attempt tnr_commit and tnr_rollback exclude  *)
(* each other: a tnr_rollback event belongs to an attempt in which UNDO    *)
(* runs a rollback, and never to an attempt that ends with tnr_commit.     *)
(***************************************************************************)
\* the events of type `type` in the attempt that lock_acquired at position i opens
AttemptEvents(i, type) == {k \in EventsAt(type) : i < k /\ k < NextMitigateAfter(i)}

C35_CommitExcludesRollback ==
    \A i \in EventsAt("lock_acquired") :
        /\ AttemptEvents(i, "tnr_commit") = {} \/ AttemptEvents(i, "tnr_rollback") = {}
        /\ (AttemptEvents(i, "tnr_rollback") # {}
               /\ (NextMitigateAfter(i) <= Len(log) \/ Terminated))
              => \E k \in RollbacksBetween(i, NextMitigateAfter(i)) :
                     log[k - 1] = Event("undo", "tnr_rollback")

(***************************************************************************)
(* C36. In the order service an order is stored with status confirmed only *)
(* if its stock check, its payment and its stock reservation all           *)
(* succeeded: a reservation that is refused or cannot be reached after a   *)
(* successful payment leaves no confirmed order.                           *)
(***************************************************************************)
C36_ConfirmedMeansReserved ==
    \A o \in OrderIds :
        shop.orders[o].status = "confirmed"
           => /\ shop.orders[o].stock_ok
              /\ shop.orders[o].paid
              /\ shop.orders[o].reserve = "reserved"

(***************************************************************************)
(* C37. In the product service a product's stock is never negative: under  *)
(* every interleaving of concurrent reserve requests with positive integer *)
(* quantities, each reservation answered with reserved = true decremented  *)
(* a stock that was at least qty at the moment of the decrement.           *)
(***************************************************************************)
C37_StockNeverNegative ==
    /\ \A p \in DOMAIN shop.products : shop.products[p] >= 0
    /\ \A o \in OrderIds :
          shop.orders[o].reserve = "reserved" => shop.orders[o].had >= shop.orders[o].qty

====
